---- MODULE Spec2Model ----
(***************************************************************************)
(* Model of the NDI audio source element (src/src/ndiaudiosrc.rs).         *)
(*                                                                         *)
(* State: the fields of one NdiAudioSrc instance per element of Instances  *)
(* (Settings, State, TimestampData, each behind its own Mutex), the        *)
(* process-wide receiver table hashmap_receivers behind its Mutex, the     *)
(* process-wide ndi_struct.start_pts, and the position of every thread     *)
(* inside the handler it is running.  Each handler is cut into steps at    *)
(* its mutex acquisitions and at the returns of the blocking               *)
(* NDIlib_recv_capture_v2 call; everything a handler does between two      *)
(* such points is one step.                                                *)
(*                                                                         *)
(* Threads: the application / state-change thread (start, stop,           *)
(* change_state, set_property, query) and one streaming thread per         *)
(* instance (fixate, set_caps, create).                                    *)
(***************************************************************************)
EXTENDS Integers, FiniteSets, TLC

----------------------------------------------------------------------------
(* Bounds of the model *)

\* largest device timestamp a captured audio frame carries
MaxTs == 3
\* largest device timestamp of a stream of strictly increasing timestamps,
\* of which every captured frame uses one up
MaxMonotoneTs == 4
\* largest no_samples of a captured audio frame
MaxSamples == 2
\* largest value timestamp_data.offset is let to reach
MaxOffset == 3
\* largest loss-threshold value set_property is given (the property allows 0..60)
MaxLoss == 1
\* largest running time (clock - base_time) read when start_pts is latched
MaxClock == 1
\* largest no_samples of the frames the buffer size is computed for
MaxFrameSamples == 1602
\* largest no_channels of the frames the buffer size is computed for
MaxChannels == 16
\* largest number of no-frame/error results one fixate is followed through
MaxFixateFails == 2

----------------------------------------------------------------------------
(* Sets *)

Instances == {1}
AppThread == <<"app", 0>>
StreamThread(i) == <<"stream", i>>
StreamThreads == {StreamThread(i) : i \in Instances}
Threads == {AppThread} \cup StreamThreads
NoThread == <<"none", 0>>
ReceiverIds == 1..Cardinality(Instances)
Rates == {48000}
Channels == {2}
LossValues == 0..MaxLoss

\* Settings.latency = None
NoLatency == -1
\* a buffer field that was never set (a fresh gst::Buffer)
NoValue == -1

\* gst::SECOND, nanoseconds
SECOND == 1000000000

\* Settings::default().loss_threshold and the property's default
DefaultLossThreshold == 5

\* i32::MAX: no_samples and no_channels are 32-bit signed integers
MaxI32 == 2147483647

\* what NDIlib_recv_capture_v2 hands back: the frame type and, for an audio
\* frame, the fields the handlers read
AudioFrames ==
    [kind : {"audio"}, timestamp : 1..MaxTs, no_samples : 1..MaxSamples,
     sample_rate : Rates, no_channels : Channels]
NonAudio ==
    [kind : {"none", "error", "other"}, timestamp : {0}, no_samples : {0},
     sample_rate : {0}, no_channels : {0}]
CaptureResults == AudioFrames \cup NonAudio

\* the capture results of a stream of strictly increasing timestamps
MonotoneFrames ==
    [kind : {"audio"}, timestamp : 1..MaxMonotoneTs, no_samples : 1..MaxSamples,
     sample_rate : Rates, no_channels : Channels]
MonotoneResults == MonotoneFrames \cup NonAudio

\* audio frames over the whole range of sample and channel counts
SizedFrames ==
    [kind : {"audio"}, timestamp : {1}, no_samples : 1..MaxFrameSamples,
     sample_rate : Rates, no_channels : 1..MaxChannels]
SizedResults == SizedFrames \cup NonAudio

VARIABLES
    settings,           \* [i -> Settings] : loss_threshold, id_receiver, latency
    state,              \* [i -> State] : info is "None" or "Some"
    timestamp_data,     \* [i -> TimestampData] : offset
    hashmap_receivers,  \* [id -> entry] : present, initial_timestamp
    start_pts,          \* ndi_struct.start_pts
    mutex,              \* owner of every Mutex (NoThread when free)
    life,               \* [i -> the host's view of the element]
    pc,                 \* [t -> position of thread t]
    inst,               \* [t -> instance thread t is working on]
    local,              \* [t -> locals of the handler thread t runs]
    ret,                \* [t -> what the handler of thread t returns]
    hist,               \* [i -> offset_end of the last buffer of this session]
    panicked,           \* a handler panicked (an unwrap() on None)
    obs                 \* [i -> device timestamps and pts seen in this session]

vars == <<settings, state, timestamp_data, hashmap_receivers, start_pts, mutex,
          life, pc, inst, local, ret, hist, panicked, obs>>

----------------------------------------------------------------------------
(* Initial state: NdiAudioSrc::new, an empty receiver table *)

DefaultSettings ==
    [loss_threshold |-> DefaultLossThreshold, id_receiver |-> 0,
     latency |-> NoLatency]

DefaultState == [info |-> "None"]

\* NDIlib_audio_frame_v2_t::default() as create, fixate and change_state use it
DefaultFrame ==
    [timestamp |-> 0, no_samples |-> 0, sample_rate |-> 0, no_channels |-> 0]

\* time, count_frame_none and audio_frame, and beside them the number of
\* no-frame/error results of this call (fails) and the loss_threshold it runs
\* with (lt)
NoLocal ==
    [time |-> 0, count |-> 0, frame |-> DefaultFrame, fails |-> 0, lt |-> 0]

\* what a handler returns: the kind of result, the fields of the buffer,
\* the frame it was made from, the kind of the capture result that ended the
\* call (last), offset_end of the buffer before it (prev_end), whether
\* this call set start_pts (latched), and the byte size of the buffer with
\* the channel count of its frame
NoRet ==
    [kind |-> "-", offset |-> NoValue, offset_end |-> NoValue, pts |-> NoValue,
     no_samples |-> 0, timestamp |-> 0, last |-> "-", prev_end |-> NoValue,
     latched |-> FALSE, size |-> NoValue, no_channels |-> 0]

NoHist == [end |-> NoValue]

\* the last device timestamp delivered, the pts of the last two buffers, and
\* whether each was made with the initial timestamp already set
NoObs ==
    [dev |-> 0, prev_pts |-> NoValue, last_pts |-> NoValue,
     prev_seeded |-> FALSE, last_seeded |-> FALSE]

NoEntry == [present |-> FALSE, initial_timestamp |-> 0]

MutexNames ==
    {<<"receivers", 0>>} \cup
    ({"settings", "state", "timestamp_data"} \X Instances)

Init ==
    /\ settings = [i \in Instances |-> DefaultSettings]
    /\ state = [i \in Instances |-> DefaultState]
    /\ timestamp_data = [i \in Instances |-> [offset |-> 0]]
    /\ hashmap_receivers = [id \in ReceiverIds |-> NoEntry]
    /\ start_pts = 0
    /\ mutex = [m \in MutexNames |-> NoThread]
    /\ life = [i \in Instances |-> "stopped"]
    /\ pc = [t \in Threads |-> "idle"]
    /\ inst = [t \in Threads |-> IF t = AppThread THEN 1 ELSE t[2]]
    /\ local = [t \in Threads |-> NoLocal]
    /\ ret = [t \in Threads |-> NoRet]
    /\ hist = [i \in Instances |-> NoHist]
    /\ panicked = FALSE
    /\ obs = [i \in Instances |-> NoObs]

----------------------------------------------------------------------------
(* Mutex<T>::lock and the drop of its guard *)

Free(m) == mutex[m] = NoThread

Holds(t, m) == mutex[m] = t

Lock(t, ms) == [m \in MutexNames |-> IF m \in ms THEN t ELSE mutex[m]]

RecvM == <<"receivers", 0>>
SettM(i) == <<"settings", i>>
StateM(i) == <<"state", i>>
TsM(i) == <<"timestamp_data", i>>

\* the guards of `held` stay with t, every other guard of t is dropped
Keep(t, held) ==
    [m \in MutexNames |->
        IF m \in held THEN t ELSE IF mutex[m] = t THEN NoThread ELSE mutex[m]]

\* every guard of t is dropped (the handler returns)
DropAll(t) == Keep(t, {})

----------------------------------------------------------------------------
(* The frame a capture call leaves in audio_frame: an audio result fills   *)
(* it, any other result leaves it as it was                                *)

Captured(frame, r) ==
    IF r.kind = "audio"
    THEN [timestamp |-> r.timestamp, no_samples |-> r.no_samples,
          sample_rate |-> r.sample_rate, no_channels |-> r.no_channels]
    ELSE frame

----------------------------------------------------------------------------
(* create (lines 365-464) *)

HaveCapsUnchecked(info) == TRUE

\* line 376: state.info is Some
HaveCaps(info) == info = "Some"

CreatePollUnguarded(i) == {}

\* the guards create holds while it polls: _settings (371), timestamp_data
\* (373), state (375) and receivers (383) are named locals of the function
CreatePollGuards(i) == {SettM(i), TsM(i), StateM(i), RecvM}

IsLossAnyThreshold(kind, loss_threshold) == kind = "none" \/ kind = "error"

\* lines 399-400: the result counts against the loss budget
IsLoss(kind, loss_threshold) ==
    (kind = "none" /\ loss_threshold # 0) \/ kind = "error"

BudgetLeftOffByOne(count, loss_threshold) == count <= loss_threshold

\* line 402: the budget is not used up
BudgetLeft(count, loss_threshold) == count < loss_threshold

\* line 410: no frame and loss_threshold 0: an empty buffer is sent
IsEmptyCase(kind, loss_threshold) == kind = "none" /\ loss_threshold = 0

SkipFrameOlderOnly(time, timestamp) == time > timestamp

\* line 416: the frame is not newer than the initial timestamp
SkipFrame(time, timestamp) == time >= timestamp

\* lines 425, 441-442: the presentation timestamp of the buffer
BufferPts(timestamp, time, start) == (timestamp - time) * 100 + start

\* line 433: start_pts has not been set
StartPtsUnset(start) == start = 0

\* i32 addition that wraps: a + b modulo 2^32, in MinI32..MaxI32
WrapAdd(a, b) ==
    IF a >= 0 /\ b >= 0 /\ a > MaxI32 - b
    THEN (a - MaxI32) + (b - MaxI32) - 2
    ELSE IF a < 0 /\ b < 0 /\ a < (-MaxI32 - 1) - b
         THEN (a + MaxI32) + (b + MaxI32) + 2
         ELSE a + b

\* i32 multiplication that wraps, for b >= 0
RECURSIVE WrapMul(_, _)
WrapMul(a, b) ==
    IF b = 0
    THEN 0
    ELSE LET half == WrapMul(a, b \div 2)
             twice == WrapAdd(half, half)
         IN  IF b % 2 = 1 THEN WrapAdd(twice, a) ELSE twice

\* the i32 product a * b of a >= 0 and b >= 0 is above i32::MAX
MulOverflows(a, b) == b > 0 /\ a > MaxI32 \div b

\* Buffer::with_size(..).unwrap() on a size that cannot be allocated, or an
\* arithmetic overflow in a build that checks for it: the call panics
NoSize == -1

BuffSizesMono(frame) == {frame.no_samples * 2}

\* lines 430-431: (no_samples * 2 * no_channels) as usize.  The product is
\* made in i32; when it overflows, a build with overflow checks panics and
\* one without wraps, and a wrapped negative size, cast to usize, is above
\* every size that can be allocated
BuffSizes(frame) ==
    LET n == frame.no_samples
        c == frame.no_channels
        checked == IF MulOverflows(n, 2) \/ MulOverflows(n * 2, c)
                   THEN NoSize ELSE n * 2 * c
        wrapped == WrapMul(WrapMul(n, 2), c)
    IN  {checked, IF wrapped < 0 THEN NoSize ELSE wrapped}

NextOffsetByOne(offset, no_samples) == offset + 1

NextOffsetTwice(offset, no_samples) == offset + 2 * no_samples

\* line 451: timestamp_data.offset after the frame
NextOffset(offset, no_samples) == offset + no_samples

CreateCall(t) ==
    /\ t \in StreamThreads
    /\ pc[t] = "idle"
    /\ pc' = [pc EXCEPT ![t] = "c_settings"]
    /\ UNCHANGED <<settings, state, timestamp_data, hashmap_receivers, start_pts,
                   mutex, life, inst, local, ret, hist, panicked>>

\* line 371
CreateLockSettings(t) ==
    /\ pc[t] = "c_settings"
    /\ Free(SettM(inst[t]))
    /\ mutex' = Lock(t, {SettM(inst[t])})
    /\ pc' = [pc EXCEPT ![t] = "c_timestamp"]
    /\ UNCHANGED <<settings, state, timestamp_data, hashmap_receivers, start_pts,
                   life, inst, local, ret, hist, panicked>>

\* line 373
CreateLockTimestamp(t) ==
    /\ pc[t] = "c_timestamp"
    /\ Free(TsM(inst[t]))
    /\ mutex' = Lock(t, {TsM(inst[t])})
    /\ pc' = [pc EXCEPT ![t] = "c_state"]
    /\ UNCHANGED <<settings, state, timestamp_data, hashmap_receivers, start_pts,
                   life, inst, local, ret, hist, panicked>>

\* lines 375-382
CreateLockState(t) ==
    LET i == inst[t] IN
    /\ pc[t] = "c_state"
    /\ Free(StateM(i))
    /\ IF HaveCaps(state[i].info)
       THEN /\ mutex' = Lock(t, {StateM(i)})
            /\ pc' = [pc EXCEPT ![t] = "c_receivers"]
            /\ ret' = ret
       ELSE /\ mutex' = DropAll(t)
            /\ pc' = [pc EXCEPT ![t] = "c_ret"]
            /\ ret' = [ret EXCEPT ![t] = [NoRet EXCEPT !.kind = "NotNegotiated"]]
    /\ UNCHANGED <<settings, state, timestamp_data, hashmap_receivers, start_pts,
                   life, inst, local, hist, panicked>>

\* lines 383-395: the receiver is looked up (unwrap), initial_timestamp is
\* read, and the first capture call is entered
CreateLockReceivers(t) ==
    LET i == inst[t]
        id == settings[i].id_receiver
    IN
    /\ pc[t] = "c_receivers"
    /\ Free(RecvM)
    /\ IF id \in ReceiverIds /\ hashmap_receivers[id].present
       THEN /\ mutex' = Keep(t, CreatePollGuards(i))
            /\ local' = [local EXCEPT ![t] =
                   [NoLocal EXCEPT !.time = hashmap_receivers[id].initial_timestamp,
                                   !.lt = settings[i].loss_threshold]]
            /\ pc' = [pc EXCEPT ![t] = "c_poll"]
            /\ panicked' = panicked
       ELSE /\ panicked' = TRUE
            /\ UNCHANGED <<mutex, local, pc>>
    /\ UNCHANGED <<settings, state, timestamp_data, hashmap_receivers, start_pts,
                   life, inst, ret, hist>>

\* the model follows timestamp_data.offset up to MaxOffset
OffsetRoom(t, r) ==
    (r.kind = "audio" /\ ~SkipFrame(local[t].time, r.timestamp)) =>
        NextOffset(timestamp_data[inst[t]].offset, r.no_samples) <= MaxOffset

\* lines 396-463: one capture call returns r; `now` is the running time read
\* at line 435 when start_pts is latched
CreatePoll(t, r, now) ==
    LET i == inst[t]
        l == local[t]
        lt == settings[i].loss_threshold
        frame == Captured(l.frame, r)
        seen == [l EXCEPT !.frame = frame,
                          !.fails = IF r.kind \in {"none", "error"}
                                    THEN l.fails + 1 ELSE l.fails]
        offset == timestamp_data[i].offset
        start == IF StartPtsUnset(start_pts) THEN now ELSE start_pts
        fault(kind) == [NoRet EXCEPT !.kind = kind, !.last = r.kind]
    IN
    /\ pc[t] = "c_poll"
    /\ now # 0 => (StartPtsUnset(start_pts) /\ r.kind = "audio"
                      /\ ~SkipFrame(l.time, r.timestamp))
    /\ IF IsLoss(r.kind, lt)
       THEN IF BudgetLeft(l.count, lt)
            THEN \* lines 403-404
                 /\ local' = [local EXCEPT ![t] = [seen EXCEPT !.count = l.count + 1]]
                 /\ UNCHANGED <<pc, ret, mutex, timestamp_data, start_pts, hist,
                                panicked>>
            ELSE \* lines 406-407
                 /\ local' = [local EXCEPT ![t] = seen]
                 /\ ret' = [ret EXCEPT ![t] = fault("StreamClosed")]
                 /\ pc' = [pc EXCEPT ![t] = "c_ret"]
                 /\ mutex' = DropAll(t)
                 /\ UNCHANGED <<timestamp_data, start_pts, hist, panicked>>
       ELSE IF IsEmptyCase(r.kind, lt)
            THEN \* lines 411-413
                 /\ local' = [local EXCEPT ![t] = seen]
                 /\ ret' = [ret EXCEPT ![t] = fault("Empty")]
                 /\ pc' = [pc EXCEPT ![t] = "c_ret"]
                 /\ mutex' = DropAll(t)
                 /\ UNCHANGED <<timestamp_data, start_pts, hist, panicked>>
            ELSE IF SkipFrame(l.time, frame.timestamp)
                 THEN \* line 417: the loop goes round
                      /\ local' = [local EXCEPT ![t] = seen]
                      /\ UNCHANGED <<pc, ret, mutex, timestamp_data, start_pts,
                                     hist, panicked>>
                 ELSE \* lines 423-462: the buffer is assembled
                      \E size \in BuffSizes(frame) :
                         /\ local' = [local EXCEPT ![t] = seen]
                         /\ IF size = NoSize
                            THEN \* line 430 or 431 panics
                                 /\ panicked' = TRUE
                                 /\ ret' = [ret EXCEPT ![t] = fault("NoBuffer")]
                                 /\ UNCHANGED <<pc, mutex, timestamp_data,
                                                start_pts, hist>>
                            ELSE /\ start_pts' = start
                                 /\ timestamp_data' =
                                        [timestamp_data EXCEPT ![i].offset =
                                            NextOffset(offset, frame.no_samples)]
                                 /\ ret' = [ret EXCEPT ![t] =
                                        [kind |-> "Buffer",
                                         offset |-> offset,
                                         offset_end |->
                                            NextOffset(offset, frame.no_samples),
                                         pts |-> BufferPts(frame.timestamp, l.time,
                                                           start),
                                         no_samples |-> frame.no_samples,
                                         timestamp |-> frame.timestamp,
                                         last |-> r.kind,
                                         prev_end |-> hist[i].end,
                                         latched |-> StartPtsUnset(start_pts),
                                         size |-> size,
                                         no_channels |-> frame.no_channels]]
                                 /\ hist' = [hist EXCEPT ![i].end =
                                        NextOffset(offset, frame.no_samples)]
                                 /\ pc' = [pc EXCEPT ![t] = "c_ret"]
                                 /\ mutex' = DropAll(t)
                                 /\ panicked' = panicked
    /\ UNCHANGED <<settings, state, hashmap_receivers, life, inst>>

\* the buffer or the fault is handed to the caller
CreateReturn(t) ==
    /\ pc[t] = "c_ret"
    /\ pc' = [pc EXCEPT ![t] = "idle"]
    /\ ret' = [ret EXCEPT ![t] = NoRet]
    /\ local' = [local EXCEPT ![t] = NoLocal]
    /\ UNCHANGED <<settings, state, timestamp_data, hashmap_receivers, start_pts,
                   mutex, life, inst, hist, panicked>>

----------------------------------------------------------------------------
(* The receiver table's collaborators connect_ndi and stop_ndi: connect    *)
(* takes the table's lock, and either fails with id 0 or adds an entry,    *)
(* whose initial_timestamp is 0, under an id not in use; disconnect takes  *)
(* the lock and removes the entry                                          *)

FreshId == CHOOSE id \in ReceiverIds :
              /\ ~hashmap_receivers[id].present
              /\ \A j \in ReceiverIds : j < id => hashmap_receivers[j].present

ConnectNdi(id) ==
    [hashmap_receivers EXCEPT ![id] = [present |-> TRUE, initial_timestamp |-> 0]]

StopNdi(id) == [hashmap_receivers EXCEPT ![id] = NoEntry]

Connected(id) == id \in ReceiverIds /\ hashmap_receivers[id].present

----------------------------------------------------------------------------
(* start (lines 280-292) *)

StartCall(t, i) ==
    /\ t = AppThread
    /\ pc[t] = "idle"
    /\ life[i] = "stopped"
    /\ life' = [life EXCEPT ![i] = "starting"]
    /\ inst' = [inst EXCEPT ![t] = i]
    /\ hist' = [hist EXCEPT ![i] = NoHist]
    /\ pc' = [pc EXCEPT ![t] = "st_state"]
    /\ UNCHANGED <<settings, state, timestamp_data, hashmap_receivers, start_pts,
                   mutex, local, ret, panicked>>

\* line 281: the guard is a temporary of the statement
StartResetState(t) ==
    /\ pc[t] = "st_state"
    /\ Free(StateM(inst[t]))
    /\ state' = [state EXCEPT ![inst[t]] = DefaultState]
    /\ pc' = [pc EXCEPT ![t] = "st_settings"]
    /\ UNCHANGED <<settings, timestamp_data, hashmap_receivers, start_pts, mutex,
                   life, inst, local, ret, hist, panicked>>

\* line 283
StartLockSettings(t) ==
    /\ pc[t] = "st_settings"
    /\ Free(SettM(inst[t]))
    /\ mutex' = Lock(t, {SettM(inst[t])})
    /\ pc' = [pc EXCEPT ![t] = "st_connect"]
    /\ UNCHANGED <<settings, state, timestamp_data, hashmap_receivers, start_pts,
                   life, inst, local, ret, hist, panicked>>

\* lines 284-291: connect_ndi answers an id, or 0 when it fails
StartConnect(t, ok) ==
    LET i == inst[t] IN
    /\ pc[t] = "st_connect"
    /\ Free(RecvM)
    /\ IF ok
       THEN /\ hashmap_receivers' = ConnectNdi(FreshId)
            /\ settings' = [settings EXCEPT ![i].id_receiver = FreshId]
            /\ life' = [life EXCEPT ![i] = "started"]
       ELSE /\ hashmap_receivers' = hashmap_receivers
            /\ settings' = [settings EXCEPT ![i].id_receiver = 0]
            /\ life' = [life EXCEPT ![i] = "stopped"]
    /\ mutex' = DropAll(t)
    /\ pc' = [pc EXCEPT ![t] = "idle"]
    /\ UNCHANGED <<state, timestamp_data, start_pts, inst, local, ret, hist,
                   panicked>>

----------------------------------------------------------------------------
(* stop (lines 294-302) *)

StopCall(t, i) ==
    /\ t = AppThread
    /\ pc[t] = "idle"
    /\ life[i] = "started"
    /\ life' = [life EXCEPT ![i] = "stopping"]
    /\ inst' = [inst EXCEPT ![t] = i]
    /\ pc' = [pc EXCEPT ![t] = "sp_state"]
    /\ UNCHANGED <<settings, state, timestamp_data, hashmap_receivers, start_pts,
                   mutex, local, ret, hist, panicked>>

\* line 295: the guard is a temporary of the statement
StopResetState(t) ==
    /\ pc[t] = "sp_state"
    /\ Free(StateM(inst[t]))
    /\ state' = [state EXCEPT ![inst[t]] = DefaultState]
    /\ pc' = [pc EXCEPT ![t] = "sp_settings"]
    /\ UNCHANGED <<settings, timestamp_data, hashmap_receivers, start_pts, mutex,
                   life, inst, local, ret, hist, panicked>>

\* line 297
StopLockSettings(t) ==
    /\ pc[t] = "sp_settings"
    /\ Free(SettM(inst[t]))
    /\ mutex' = Lock(t, {SettM(inst[t])})
    /\ pc' = [pc EXCEPT ![t] = "sp_disconnect"]
    /\ UNCHANGED <<settings, state, timestamp_data, hashmap_receivers, start_pts,
                   life, inst, local, ret, hist, panicked>>

\* lines 298-301: stop_ndi releases the receiver id
StopDisconnect(t) ==
    LET i == inst[t]
        id == settings[i].id_receiver
    IN
    /\ pc[t] = "sp_disconnect"
    /\ Free(RecvM)
    /\ IF Connected(id)
       THEN /\ hashmap_receivers' = StopNdi(id)
            /\ life' = [life EXCEPT ![i] = "stopped"]
            /\ mutex' = DropAll(t)
            /\ pc' = [pc EXCEPT ![t] = "idle"]
            /\ panicked' = panicked
       ELSE /\ panicked' = TRUE
            /\ UNCHANGED <<hashmap_receivers, life, mutex, pc>>
    /\ UNCHANGED <<settings, state, timestamp_data, start_pts, inst, local, ret,
                   hist>>

----------------------------------------------------------------------------
(* set_caps (lines 266-278): `valid` is whether AudioInfo::from_caps       *)
(* accepts the caps                                                        *)

SetCaps(t, valid) ==
    LET i == inst[t] IN
    /\ t \in StreamThreads
    /\ pc[t] = "idle"
    /\ life[i] = "started"
    /\ Free(StateM(i))
    /\ state' = IF valid THEN [state EXCEPT ![i].info = "Some"] ELSE state
    /\ UNCHANGED <<settings, timestamp_data, hashmap_receivers, start_pts, mutex,
                   life, pc, inst, local, ret, hist, panicked, obs>>

----------------------------------------------------------------------------
(* set_property "loss-threshold" (lines 186-198) *)

SetLossThreshold(t, i, v) ==
    /\ t = AppThread
    /\ pc[t] = "idle"
    /\ Free(SettM(i))
    /\ settings[i].loss_threshold # v
    /\ settings' = [settings EXCEPT ![i].loss_threshold = v]
    /\ UNCHANGED <<state, timestamp_data, hashmap_receivers, start_pts, mutex,
                   life, pc, inst, local, ret, hist, panicked, obs>>

----------------------------------------------------------------------------
(* fixate (lines 327-363) *)

\* ClockTime::mul_div_floor(a, n, d) = floor(a * n / d), computed without
\* the product a * n
MulDivFloor(a, n, d) == (a \div d) * n + ((a % d) * n) \div d

FrameLatencyOneSample(frame) == MulDivFloor(SECOND, 1, frame.sample_rate)

\* line 349
FrameLatency(frame) == MulDivFloor(SECOND, frame.no_samples, frame.sample_rate)

FixateCall(t) ==
    /\ t \in StreamThreads
    /\ pc[t] = "idle"
    /\ life[inst[t]] = "started"
    /\ pc' = [pc EXCEPT ![t] = "f_receivers"]
    /\ UNCHANGED <<settings, state, timestamp_data, hashmap_receivers, start_pts,
                   mutex, life, inst, local, ret, hist, panicked>>

\* line 328
FixateLockReceivers(t) ==
    /\ pc[t] = "f_receivers"
    /\ Free(RecvM)
    /\ mutex' = Lock(t, {RecvM})
    /\ pc' = [pc EXCEPT ![t] = "f_settings"]
    /\ UNCHANGED <<settings, state, timestamp_data, hashmap_receivers, start_pts,
                   life, inst, local, ret, hist, panicked>>

\* lines 329-338: the receiver is looked up (unwrap) and the first capture
\* call is entered
FixateLockSettings(t) ==
    LET i == inst[t] IN
    /\ pc[t] = "f_settings"
    /\ Free(SettM(i))
    /\ IF Connected(settings[i].id_receiver)
       THEN /\ mutex' = Lock(t, {SettM(i)})
            /\ local' = [local EXCEPT ![t] = NoLocal]
            /\ pc' = [pc EXCEPT ![t] = "f_poll"]
            /\ panicked' = panicked
       ELSE /\ panicked' = TRUE
            /\ UNCHANGED <<mutex, local, pc>>
    /\ UNCHANGED <<settings, state, timestamp_data, hashmap_receivers, start_pts,
                   life, inst, ret, hist>>

\* lines 339-362: one capture call returns r; the no-frame/error results of
\* the call are counted (fails) up to MaxFixateFails
FixatePoll(t, r) ==
    LET i == inst[t]
        l == local[t]
        frame == Captured(l.frame, r)
        seen == [l EXCEPT !.frame = frame,
                          !.fails = IF r.kind \in {"none", "error"}
                                    THEN l.fails + 1 ELSE l.fails]
    IN
    /\ pc[t] = "f_poll"
    /\ seen.fails <= MaxFixateFails
    /\ local' = [local EXCEPT ![t] = seen]
    /\ IF r.kind # "audio"
       THEN UNCHANGED <<settings, mutex, pc, ret>>
       ELSE /\ settings' = [settings EXCEPT ![i].latency = FrameLatency(frame)]
            /\ ret' = [ret EXCEPT ![t] =
                   [NoRet EXCEPT !.kind = "Caps",
                                 !.no_samples = frame.no_samples,
                                 !.timestamp = frame.timestamp]]
            /\ mutex' = DropAll(t)
            /\ pc' = [pc EXCEPT ![t] = "f_ret"]
    /\ UNCHANGED <<state, timestamp_data, hashmap_receivers, start_pts, life, inst,
                   hist, panicked>>

FixateReturn(t) ==
    /\ pc[t] = "f_ret"
    /\ pc' = [pc EXCEPT ![t] = "idle"]
    /\ ret' = [ret EXCEPT ![t] = NoRet]
    /\ local' = [local EXCEPT ![t] = NoLocal]
    /\ UNCHANGED <<settings, state, timestamp_data, hashmap_receivers, start_pts,
                   mutex, life, inst, hist, panicked>>

----------------------------------------------------------------------------
(* change_state, transition PausedToPlaying (lines 225-262) *)

\* lines 253-257: the initial timestamp after the warm-up frame
WarmupTimestamp(initial_timestamp, timestamp) ==
    IF initial_timestamp <= timestamp \/ initial_timestamp = 0
    THEN timestamp
    ELSE initial_timestamp

WarmupCall(t, i) ==
    /\ t = AppThread
    /\ pc[t] = "idle"
    /\ life[i] = "started"
    /\ inst' = [inst EXCEPT ![t] = i]
    /\ pc' = [pc EXCEPT ![t] = "w_receivers"]
    /\ UNCHANGED <<settings, state, timestamp_data, hashmap_receivers, start_pts,
                   mutex, life, local, ret, hist, panicked>>

\* line 231
WarmupLockReceivers(t) ==
    /\ pc[t] = "w_receivers"
    /\ Free(RecvM)
    /\ mutex' = Lock(t, {RecvM})
    /\ pc' = [pc EXCEPT ![t] = "w_settings"]
    /\ UNCHANGED <<settings, state, timestamp_data, hashmap_receivers, start_pts,
                   life, inst, local, ret, hist, panicked>>

\* lines 232-240: the receiver is looked up (unwrap) and the first capture
\* call is entered
WarmupLockSettings(t) ==
    LET i == inst[t] IN
    /\ pc[t] = "w_settings"
    /\ Free(SettM(i))
    /\ IF Connected(settings[i].id_receiver)
       THEN /\ mutex' = Lock(t, {SettM(i)})
            /\ pc' = [pc EXCEPT ![t] = "w_poll"]
            /\ panicked' = panicked
       ELSE /\ panicked' = TRUE
            /\ UNCHANGED <<mutex, pc>>
    /\ UNCHANGED <<settings, state, timestamp_data, hashmap_receivers, start_pts,
                   life, inst, local, ret, hist>>

\* lines 242-261: one capture call returns r
WarmupPoll(t, r) ==
    LET i == inst[t]
        id == settings[i].id_receiver
    IN
    /\ pc[t] = "w_poll"
    /\ IF r.kind # "audio"
       THEN UNCHANGED <<hashmap_receivers, mutex, pc>>
       ELSE /\ hashmap_receivers' =
                   [hashmap_receivers EXCEPT ![id].initial_timestamp =
                       WarmupTimestamp(@, r.timestamp)]
            /\ mutex' = DropAll(t)
            /\ pc' = [pc EXCEPT ![t] = "idle"]
    /\ UNCHANGED <<settings, state, timestamp_data, start_pts, life, inst, local,
                   ret, hist, panicked>>

----------------------------------------------------------------------------
(* query, the latency query (lines 311-323) *)

QueryCall(t, i) ==
    /\ t = AppThread
    /\ pc[t] = "idle"
    /\ inst' = [inst EXCEPT ![t] = i]
    /\ pc' = [pc EXCEPT ![t] = "q_settings"]
    /\ UNCHANGED <<settings, state, timestamp_data, hashmap_receivers, start_pts,
                   mutex, life, local, ret, hist, panicked>>

\* line 312
QueryLockSettings(t) ==
    /\ pc[t] = "q_settings"
    /\ Free(SettM(inst[t]))
    /\ mutex' = Lock(t, {SettM(inst[t])})
    /\ pc' = [pc EXCEPT ![t] = "q_state"]
    /\ UNCHANGED <<settings, state, timestamp_data, hashmap_receivers, start_pts,
                   life, inst, local, ret, hist, panicked>>

\* lines 313-322
QueryLockState(t) ==
    LET i == inst[t] IN
    /\ pc[t] = "q_state"
    /\ Free(StateM(i))
    /\ IF HaveCaps(state[i].info) /\ settings[i].latency = NoLatency
       THEN \* line 316: unwrap of None
            /\ panicked' = TRUE
            /\ UNCHANGED <<mutex, pc, ret>>
       ELSE /\ ret' = [ret EXCEPT ![t] =
                   IF HaveCaps(state[i].info)
                   THEN [NoRet EXCEPT !.kind = "Latency", !.pts = settings[i].latency]
                   ELSE [NoRet EXCEPT !.kind = "False"]]
            /\ mutex' = DropAll(t)
            /\ pc' = [pc EXCEPT ![t] = "q_ret"]
            /\ panicked' = panicked
    /\ UNCHANGED <<settings, state, timestamp_data, hashmap_receivers, start_pts,
                   life, inst, local, hist>>

QueryReturn(t) ==
    /\ pc[t] = "q_ret"
    /\ pc' = [pc EXCEPT ![t] = "idle"]
    /\ ret' = [ret EXCEPT ![t] = NoRet]
    /\ UNCHANGED <<settings, state, timestamp_data, hashmap_receivers, start_pts,
                   mutex, life, inst, local, hist, panicked>>

----------------------------------------------------------------------------
(* The specification: the handlers run by the threads.  Nothing runs after *)
(* a panic, and a result a handler has produced is handed to its caller    *)
(* before any other step (the hand-over touches nothing another thread     *)
(* reads, so this leaves out no behaviour of the program's state)          *)

Returning == \E t \in Threads : pc[t] \in {"c_ret", "f_ret", "q_ret"}

Running == ~panicked /\ ~Returning

Plain == UNCHANGED obs

Next ==
    \/ \E t \in Threads : Running /\ Plain /\ CreateCall(t)
    \/ \E t \in Threads : Running /\ Plain /\ CreateLockSettings(t)
    \/ \E t \in Threads : Running /\ Plain /\ CreateLockTimestamp(t)
    \/ \E t \in Threads : Running /\ Plain /\ CreateLockState(t)
    \/ \E t \in Threads : Running /\ Plain /\ CreateLockReceivers(t)
    \/ \E t \in Threads, r \in CaptureResults, now \in 0..MaxClock :
           Running /\ Plain /\ OffsetRoom(t, r) /\ CreatePoll(t, r, now)
    \/ \E t \in Threads : ~panicked /\ Plain /\ CreateReturn(t)
    \/ \E t \in Threads, i \in Instances : Running /\ Plain /\ StartCall(t, i)
    \/ \E t \in Threads : Running /\ Plain /\ StartResetState(t)
    \/ \E t \in Threads : Running /\ Plain /\ StartLockSettings(t)
    \/ \E t \in Threads, ok \in BOOLEAN : Running /\ Plain /\ StartConnect(t, ok)
    \/ \E t \in Threads, i \in Instances : Running /\ Plain /\ StopCall(t, i)
    \/ \E t \in Threads : Running /\ Plain /\ StopResetState(t)
    \/ \E t \in Threads : Running /\ Plain /\ StopLockSettings(t)
    \/ \E t \in Threads : Running /\ Plain /\ StopDisconnect(t)
    \/ \E t \in Threads, valid \in BOOLEAN : Running /\ Plain /\ SetCaps(t, valid)
    \/ \E t \in Threads, i \in Instances, v \in LossValues :
           Running /\ Plain /\ SetLossThreshold(t, i, v)
    \/ \E t \in Threads : Running /\ Plain /\ FixateCall(t)
    \/ \E t \in Threads : Running /\ Plain /\ FixateLockReceivers(t)
    \/ \E t \in Threads : Running /\ Plain /\ FixateLockSettings(t)
    \/ \E t \in Threads, r \in CaptureResults : Running /\ Plain /\ FixatePoll(t, r)
    \/ \E t \in Threads : ~panicked /\ Plain /\ FixateReturn(t)
    \/ \E t \in Threads, i \in Instances : Running /\ Plain /\ WarmupCall(t, i)
    \/ \E t \in Threads : Running /\ Plain /\ WarmupLockReceivers(t)
    \/ \E t \in Threads : Running /\ Plain /\ WarmupLockSettings(t)
    \/ \E t \in Threads, r \in CaptureResults : Running /\ Plain /\ WarmupPoll(t, r)
    \/ \E t \in Threads, i \in Instances : Running /\ Plain /\ QueryCall(t, i)
    \/ \E t \in Threads : Running /\ Plain /\ QueryLockSettings(t)
    \/ \E t \in Threads : Running /\ Plain /\ QueryLockState(t)
    \/ \E t \in Threads : ~panicked /\ Plain /\ QueryReturn(t)

Spec == Init /\ [][Next]_vars

----------------------------------------------------------------------------
(* The same steps with threads that go on: a thread inside a handler takes *)
(* the handler's next step if that step stays possible.  Nothing is        *)
(* assumed of the host's calls or of the results of the capture calls      *)

Proceed(t) ==
    /\ Plain
    /\ \/ Running /\ CreateLockSettings(t)
       \/ Running /\ CreateLockTimestamp(t)
       \/ Running /\ CreateLockState(t)
       \/ Running /\ CreateLockReceivers(t)
       \/ \E r \in CaptureResults, now \in 0..MaxClock :
              Running /\ OffsetRoom(t, r) /\ CreatePoll(t, r, now)
       \/ ~panicked /\ CreateReturn(t)
       \/ Running /\ StartResetState(t)
       \/ Running /\ StartLockSettings(t)
       \/ \E ok \in BOOLEAN : Running /\ StartConnect(t, ok)
       \/ Running /\ StopResetState(t)
       \/ Running /\ StopLockSettings(t)
       \/ Running /\ StopDisconnect(t)
       \/ Running /\ FixateLockReceivers(t)
       \/ Running /\ FixateLockSettings(t)
       \/ \E r \in CaptureResults : Running /\ FixatePoll(t, r)
       \/ ~panicked /\ FixateReturn(t)
       \/ Running /\ WarmupLockReceivers(t)
       \/ Running /\ WarmupLockSettings(t)
       \/ \E r \in CaptureResults : Running /\ WarmupPoll(t, r)
       \/ Running /\ QueryLockSettings(t)
       \/ Running /\ QueryLockState(t)
       \/ ~panicked /\ QueryReturn(t)

SpecFair == Spec /\ \A t \in Threads : WF_vars(Proceed(t))

----------------------------------------------------------------------------
(* The same handlers called one at a time (a handler returns before the    *)
(* next is called) on a stream whose audio frames carry strictly           *)
(* increasing device timestamps; obs records, per session, the last        *)
(* device timestamp delivered and the pts of the last two buffers          *)

Serial(t) == ~panicked /\ \A u \in Threads \ {t} : pc[u] = "idle"

Increasing(i, r) == r.kind = "audio" => r.timestamp > obs[i].dev

Observe(t, r) ==
    LET i == inst[t]
        o == obs[i]
        made == pc'[t] = "c_ret" /\ ret'[t].kind = "Buffer"
    IN  obs' = [obs EXCEPT ![i] =
            [dev |-> IF r.kind = "audio" THEN r.timestamp ELSE o.dev,
             prev_pts |-> IF made THEN o.last_pts ELSE o.prev_pts,
             last_pts |-> IF made THEN ret'[t].pts ELSE o.last_pts,
             prev_seeded |-> IF made THEN o.last_seeded ELSE o.prev_seeded,
             last_seeded |-> IF made THEN local[t].time # 0 ELSE o.last_seeded]]

NextMonotone ==
    \/ \E t \in Threads : Serial(t) /\ Plain /\ CreateCall(t)
    \/ \E t \in Threads : Serial(t) /\ Plain /\ CreateLockSettings(t)
    \/ \E t \in Threads : Serial(t) /\ Plain /\ CreateLockTimestamp(t)
    \/ \E t \in Threads : Serial(t) /\ Plain /\ CreateLockState(t)
    \/ \E t \in Threads : Serial(t) /\ Plain /\ CreateLockReceivers(t)
    \/ \E t \in Threads, r \in MonotoneResults, now \in 0..MaxClock :
           /\ Serial(t) /\ Increasing(inst[t], r) /\ OffsetRoom(t, r)
           /\ CreatePoll(t, r, now) /\ Observe(t, r)
    \/ \E t \in Threads : Serial(t) /\ Plain /\ CreateReturn(t)
    \/ \E t \in Threads, i \in Instances :
           Serial(t) /\ StartCall(t, i) /\ obs' = [obs EXCEPT ![i] = NoObs]
    \/ \E t \in Threads : Serial(t) /\ Plain /\ StartResetState(t)
    \/ \E t \in Threads : Serial(t) /\ Plain /\ StartLockSettings(t)
    \/ \E t \in Threads, ok \in BOOLEAN : Serial(t) /\ Plain /\ StartConnect(t, ok)
    \/ \E t \in Threads, i \in Instances : Serial(t) /\ Plain /\ StopCall(t, i)
    \/ \E t \in Threads : Serial(t) /\ Plain /\ StopResetState(t)
    \/ \E t \in Threads : Serial(t) /\ Plain /\ StopLockSettings(t)
    \/ \E t \in Threads : Serial(t) /\ Plain /\ StopDisconnect(t)
    \/ \E t \in Threads, valid \in BOOLEAN : Serial(t) /\ Plain /\ SetCaps(t, valid)
    \/ \E t \in Threads, i \in Instances, v \in LossValues :
           Serial(t) /\ Plain /\ SetLossThreshold(t, i, v)
    \/ \E t \in Threads : Serial(t) /\ Plain /\ FixateCall(t)
    \/ \E t \in Threads : Serial(t) /\ Plain /\ FixateLockReceivers(t)
    \/ \E t \in Threads : Serial(t) /\ Plain /\ FixateLockSettings(t)
    \/ \E t \in Threads, r \in MonotoneResults :
           /\ Serial(t) /\ Increasing(inst[t], r)
           /\ FixatePoll(t, r) /\ Observe(t, r)
    \/ \E t \in Threads : Serial(t) /\ Plain /\ FixateReturn(t)
    \/ \E t \in Threads, i \in Instances : Serial(t) /\ Plain /\ WarmupCall(t, i)
    \/ \E t \in Threads : Serial(t) /\ Plain /\ WarmupLockReceivers(t)
    \/ \E t \in Threads : Serial(t) /\ Plain /\ WarmupLockSettings(t)
    \/ \E t \in Threads, r \in MonotoneResults :
           /\ Serial(t) /\ Increasing(inst[t], r)
           /\ WarmupPoll(t, r) /\ Observe(t, r)
    \/ \E t \in Threads, i \in Instances : Serial(t) /\ Plain /\ QueryCall(t, i)
    \/ \E t \in Threads : Serial(t) /\ Plain /\ QueryLockSettings(t)
    \/ \E t \in Threads : Serial(t) /\ Plain /\ QueryLockState(t)
    \/ \E t \in Threads : Serial(t) /\ Plain /\ QueryReturn(t)

SpecMonotone == Init /\ [][NextMonotone]_vars

----------------------------------------------------------------------------
(* The buffer size of create over the whole range of sample and channel    *)
(* counts: one instance is started, its format is set, and create is       *)
(* called on frames of SizedFrames; the offset, which is not what is       *)
(* looked at here, is followed up to the first buffer only                 *)

FirstBuffer(t) == timestamp_data[inst[t]].offset = 0

NextSized ==
    \/ \E t \in Threads, i \in Instances : Serial(t) /\ Plain /\ StartCall(t, i)
    \/ \E t \in Threads : Serial(t) /\ Plain /\ StartResetState(t)
    \/ \E t \in Threads : Serial(t) /\ Plain /\ StartLockSettings(t)
    \/ \E t \in Threads, ok \in BOOLEAN : Serial(t) /\ Plain /\ StartConnect(t, ok)
    \/ \E t \in Threads, valid \in BOOLEAN : Serial(t) /\ Plain /\ SetCaps(t, valid)
    \/ \E t \in Threads : Serial(t) /\ Plain /\ FirstBuffer(t) /\ CreateCall(t)
    \/ \E t \in Threads : Serial(t) /\ Plain /\ CreateLockSettings(t)
    \/ \E t \in Threads : Serial(t) /\ Plain /\ CreateLockTimestamp(t)
    \/ \E t \in Threads : Serial(t) /\ Plain /\ CreateLockState(t)
    \/ \E t \in Threads : Serial(t) /\ Plain /\ CreateLockReceivers(t)
    \/ \E t \in Threads :
           /\ Serial(t) /\ Plain /\ pc[t] = "c_poll"
           /\ \E r \in SizedResults, now \in 0..MaxClock : CreatePoll(t, r, now)
    \/ \E t \in Threads : Serial(t) /\ Plain /\ CreateReturn(t)

SpecSized == Init /\ [][NextSized]_vars

----------------------------------------------------------------------------
(* Properties *)

InCreate(t) == pc[t] \in {"c_poll", "c_ret"}

\* C1: with a format negotiated and loss_threshold = N > 0, create goes on
\* polling only while it has seen at most N no-frame/error results; it fails
\* with StreamClosed exactly on the (N+1)th such result; and a call that has
\* seen at most N of them and then captures an audio frame newer than the
\* initial timestamp returns the buffer of that frame.
C1_LossBudget ==
    \A t \in StreamThreads :
        LET l == local[t]
            r == ret[t]
        IN  (InCreate(t) /\ l.lt > 0) =>
               /\ pc[t] = "c_poll" => (l.fails <= l.lt /\ l.frame.timestamp <= l.time)
               /\ (pc[t] = "c_ret" /\ r.kind = "StreamClosed") => l.fails = l.lt + 1
               /\ (pc[t] = "c_ret" /\ l.fails = l.lt + 1) => r.kind = "StreamClosed"
               /\ (pc[t] = "c_ret" /\ r.last = "audio") =>
                      /\ r.kind = "Buffer"
                      /\ l.fails <= l.lt
                      /\ r.timestamp = l.frame.timestamp
                      /\ r.timestamp > l.time

\* six failed polls under the default threshold of 5 end in StreamClosed
C1_Witness ==
    \E t \in StreamThreads :
        /\ pc[t] = "c_ret"
        /\ ret[t].kind = "StreamClosed"
        /\ local[t].lt = DefaultLossThreshold
        /\ local[t].fails = DefaultLossThreshold + 1

\* C2: with a format negotiated and loss_threshold = 0, create never goes on
\* polling after a no-frame result: the call whose poll returns no frame
\* returns a zero-length buffer on that poll, whatever calls came before.
C2_EmptyOnNoFrame ==
    \A t \in StreamThreads :
        LET l == local[t]
            r == ret[t]
        IN  (InCreate(t) /\ l.lt = 0) =>
               /\ pc[t] = "c_poll" => l.fails = 0
               /\ (pc[t] = "c_ret" /\ r.last = "none") =>
                      (r.kind = "Empty" /\ l.fails = 1)

\* an empty buffer is returned on a no-frame result that follows a discarded
\* audio frame, in an instance that has returned buffers before
C2_Witness ==
    \E t \in StreamThreads :
        /\ pc[t] = "c_ret"
        /\ ret[t].kind = "Empty"
        /\ local[t].lt = 0
        /\ local[t].frame.timestamp > 0
        /\ timestamp_data[inst[t]].offset > 0

\* C3: with loss_threshold = 0 no create call returns StreamClosed.
C3_NeverClosedAtZero ==
    \A t \in StreamThreads :
        (pc[t] = "c_ret" /\ local[t].lt = 0) => ret[t].kind # "StreamClosed"

\* C4: a create that finds no negotiated format returns NotNegotiated at
\* once, without a capture call, leaving the receiver table, the sample
\* offset and start_pts as they were; create polls only with a format.
C4_NotNegotiated ==
    [][\A t \in StreamThreads :
          /\ (pc[t] = "c_state" /\ pc'[t] # "c_state"
                 /\ state[inst[t]].info = "None") =>
                 /\ pc'[t] = "c_ret"
                 /\ ret'[t].kind = "NotNegotiated"
                 /\ local'[t] = NoLocal
                 /\ UNCHANGED <<timestamp_data, hashmap_receivers, start_pts>>
          /\ pc'[t] \in {"c_receivers", "c_poll"} => state'[inst[t]].info = "Some"
      ]_vars

\* NotNegotiated is returned after a stop, in an instance that has returned
\* buffers in an earlier session
C4_Witness ==
    \E t \in StreamThreads :
        /\ pc[t] = "c_ret"
        /\ ret[t].kind = "NotNegotiated"
        /\ life[inst[t]] = "stopped"
        /\ timestamp_data[inst[t]].offset > 0

\* C5: every assembled buffer ends no_samples after its offset, and starts
\* where the assembled buffer before it in the same session ended.
C5_ContiguousOffsets ==
    \A t \in StreamThreads :
        (pc[t] = "c_ret" /\ ret[t].kind = "Buffer") =>
            /\ ret[t].offset_end = ret[t].offset + ret[t].no_samples
            /\ ret[t].prev_end # NoValue => ret[t].offset = ret[t].prev_end

\* a buffer of two samples that follows another buffer of its session
C5_Witness ==
    \E t \in StreamThreads :
        /\ pc[t] = "c_ret"
        /\ ret[t].kind = "Buffer"
        /\ ret[t].prev_end # NoValue
        /\ ret[t].no_samples = MaxSamples

\* C6: once the initial timestamp of a connection is non-zero, no step
\* raises it.
C6_NeverIncreases ==
    [][\A id \in ReceiverIds :
          (/\ hashmap_receivers[id].present
           /\ hashmap_receivers'[id].present
           /\ hashmap_receivers[id].initial_timestamp # 0) =>
              hashmap_receivers'[id].initial_timestamp
                 <= hashmap_receivers[id].initial_timestamp
      ]_vars

\* C7: on a stream of strictly increasing device timestamps, the pts of
\* every buffer is above that of the buffer before it in the session (here:
\* of every buffer before it that was made after a warm-up had set the
\* initial timestamp), and is (ts - initial_timestamp) * 100 + start_pts.
C7_PtsIncreasing ==
    /\ \A i \in Instances :
          (obs[i].prev_pts # NoValue /\ obs[i].prev_seeded) =>
              obs[i].last_pts > obs[i].prev_pts
    /\ \A t \in StreamThreads :
          (pc[t] = "c_ret" /\ ret[t].kind = "Buffer") =>
              ret[t].pts =
                  (ret[t].timestamp
                     - hashmap_receivers[settings[inst[t]].id_receiver].initial_timestamp)
                  * 100 + start_pts

\* C8: start_pts is assigned by the first create that assembles a buffer
\* and by no later one: a create that gives it a value (here: a value other
\* than the 0 it starts with) is the first to assemble a buffer (with one
\* instance, whose offset never goes back, that is the buffer with offset 0).
C8_LatchedOnce ==
    \A t \in StreamThreads :
        (pc[t] = "c_ret" /\ ret[t].kind = "Buffer" /\ ret[t].latched
            /\ start_pts # 0) =>
            ret[t].offset = 0

\* C9: no thread inside a capture call holds the Settings, State or
\* TimestampData mutex of its instance.
C9_NoGuardAcrossPoll ==
    \A t \in Threads :
        pc[t] \in {"c_poll", "f_poll", "w_poll"} =>
            /\ ~Holds(t, SettM(inst[t]))
            /\ ~Holds(t, StateM(inst[t]))
            /\ ~Holds(t, TsM(inst[t]))

\* C10: while a create is inside a capture call, the receiver entry it
\* polls is in the table: a stop issued meanwhile has not released it.
C10_StopWaitsForPoll ==
    \A t \in StreamThreads :
        pc[t] = "c_poll" => Connected(settings[inst[t]].id_receiver)

\* a stop has been issued and waits while the create polls
C10_Witness ==
    \E t \in StreamThreads :
        /\ pc[t] = "c_poll"
        /\ pc[AppThread] = "sp_state"
        /\ inst[AppThread] = inst[t]

\* C11: the latency query answers false without a negotiated format and
\* answers the latency stored by fixate with one, and never aborts: a query
\* that is about to read the format finds a latency whenever it finds a
\* format.
C11_QueryAnswers ==
    \A t \in Threads :
        LET i == inst[t] IN
        /\ (pc[t] = "q_state" /\ Free(StateM(i)) /\ state[i].info = "Some") =>
               settings[i].latency # NoLatency
        /\ pc[t] = "q_ret" =>
               IF state[i].info = "Some"
               THEN /\ ret[t].kind = "Latency"
                    /\ ret[t].pts = settings[i].latency
                    /\ settings[i].latency # NoLatency
               ELSE ret[t].kind = "False"

\* C12: every successful start leaves the sample offset at 0: a started
\* instance that has assembled no buffer in this session has offset 0, and
\* the first buffer assembled in a session has offset 0.
C12_OffsetResetAtStart ==
    /\ \A i \in Instances :
          (life[i] = "started" /\ hist[i].end = NoValue) =>
              timestamp_data[i].offset = 0
    /\ \A t \in StreamThreads :
          (pc[t] = "c_ret" /\ ret[t].kind = "Buffer"
              /\ ret[t].prev_end = NoValue) => ret[t].offset = 0

\* C13: every assembled buffer has byte length no_samples * no_channels * 2
\* of the frame it was made from, and for no frame of the range does the
\* size computation overflow or the buffer fail to be made.
C13_BufferSize ==
    \A t \in StreamThreads :
        /\ ret[t].kind # "NoBuffer"
        /\ (pc[t] = "c_ret" /\ ret[t].kind = "Buffer") =>
               ret[t].size = ret[t].no_samples * ret[t].no_channels * 2

\* the buffer of a frame of 480 samples on 2 channels: 1920 bytes
C13_Witness ==
    \E t \in StreamThreads :
        /\ pc[t] = "c_ret"
        /\ ret[t].kind = "Buffer"
        /\ ret[t].no_samples = 480
        /\ ret[t].no_channels = 2
        /\ ret[t].size = 1920

\* C14: the loss budget counts consecutive failures: a poll of create that
\* captures an audio frame takes the failure counter back to 0, also when
\* the frame is then discarded and create goes on polling, so that only
\* failures with no audio frame between them add up to StreamClosed.
C14_ConsecutiveFailures ==
    [][\A t \in StreamThreads :
          (pc[t] = "c_poll" /\ pc'[t] = "c_poll"
              /\ local'[t].frame # local[t].frame) =>
              local'[t].count = 0
      ]_vars

\* C15: initial_timestamp follows the lowest device timestamp captured on
\* the connection: every audio frame captured by fixate, by the warm-up or
\* by create sets it when it is 0 and lowers it to the frame's timestamp when
\* that is not above it, and leaves it alone otherwise (the warm-up's frame
\* is not kept, so of the warm-up: it sets a value when there is none and
\* raises none).
C15_LowestSeen ==
    [][\A t \in Threads :
          LET id == settings[inst[t]].id_receiver
              before == hashmap_receivers[id].initial_timestamp
              after == hashmap_receivers'[id].initial_timestamp
              Anchor(ts) == IF before = 0 \/ ts <= before THEN ts ELSE before
          IN  /\ (pc[t] = "f_poll" /\ pc'[t] = "f_ret") =>
                     after = Anchor(ret'[t].timestamp)
              /\ (pc[t] = "c_poll" /\ local'[t].frame # local[t].frame) =>
                     after = Anchor(local'[t].frame.timestamp)
              /\ (pc[t] = "c_poll" /\ pc'[t] = "c_ret"
                     /\ ret'[t].kind = "Buffer") =>
                     after = Anchor(ret'[t].timestamp)
              /\ (pc[t] = "w_poll" /\ pc'[t] = "idle") =>
                     IF before = 0 THEN after # 0 ELSE after <= before
      ]_vars

\* C16: create assembles a buffer only from a frame whose device timestamp
\* is above the initial timestamp it read on entry, so that the raw pts,
\* timestamp - initial timestamp, is above 0; a poll that is no
\* no-frame/error result and leaves a frame not above the initial timestamp
\* ends nothing: create goes on polling and the loss counter stays.
C16_OldFramesDiscarded ==
    [][\A t \in StreamThreads :
          LET time == local[t].time IN
          /\ (pc[t] = "c_poll" /\ pc'[t] = "c_ret" /\ ret'[t].kind = "Buffer") =>
                 /\ ret'[t].timestamp = local'[t].frame.timestamp
                 /\ ret'[t].timestamp > time
                 /\ ret'[t].pts - start_pts' = (ret'[t].timestamp - time) * 100
                 /\ ret'[t].pts - start_pts' > 0
          /\ (pc[t] = "c_poll" /\ local'[t].fails = local[t].fails
                 /\ local'[t].frame.timestamp <= time) =>
                 /\ pc'[t] = "c_poll"
                 /\ local'[t].count = local[t].count
                 /\ ret'[t] = ret[t]
      ]_vars

\* a create that goes on polling after it discarded an audio frame whose
\* timestamp equals the initial timestamp, with no failed poll so far
C16_Witness ==
    \E t \in StreamThreads :
        /\ pc[t] = "c_poll"
        /\ local[t].time > 0
        /\ local[t].frame.timestamp = local[t].time
        /\ local[t].fails = 0

\* C17: fixate does not apply the loss policy: whatever the loss threshold
\* and however many polls gave no frame, an error or another kind of frame,
\* fixate leaves its poll loop only on an audio frame, and then it returns
\* with Settings.latency set to the duration of that frame,
\* floor(no_samples * 10^9 / sample_rate) nanoseconds.
C17_FixateIgnoresLoss ==
    [][\A t \in StreamThreads :
          (pc[t] = "f_poll" /\ (pc'[t] # "f_poll" \/ panicked')) =>
              /\ ~panicked'
              /\ pc'[t] = "f_ret"
              /\ ret'[t].kind = "Caps"
              /\ ret'[t].no_samples = local'[t].frame.no_samples
              /\ ret'[t].no_samples >= 1
              /\ settings'[inst[t]].latency =
                     MulDivFloor(SECOND, local'[t].frame.no_samples,
                                 local'[t].frame.sample_rate)
      ]_vars

\* a fixate that returns after more failed polls than the loss threshold,
\* which is above 0, allows
C17_Witness ==
    \E t \in StreamThreads :
        /\ pc[t] = "f_ret"
        /\ settings[inst[t]].loss_threshold > 0
        /\ local[t].fails > settings[inst[t]].loss_threshold
        /\ local[t].frame.no_samples = MaxSamples

\* C18: with a format negotiated and a loss threshold above 0, every create
\* that polls comes to return, whatever the capture calls deliver.
C18_CreateTerminates ==
    \A t \in StreamThreads :
        (pc[t] = "c_poll" /\ local[t].lt > 0) ~> (pc[t] # "c_poll")

\* the mutex the next step of thread t has to lock, if it has to lock one
\* (the lock of the receiver table inside connect_ndi and stop_ndi, which are
\* not part of this file, is left out)
WaitsFor(t) ==
    CASE pc[t] \in {"c_settings", "st_settings", "sp_settings", "f_settings",
                    "w_settings", "q_settings"} -> {SettM(inst[t])}
      [] pc[t] \in {"c_state", "st_state", "sp_state", "q_state"} ->
             {StateM(inst[t])}
      [] pc[t] = "c_timestamp" -> {TsM(inst[t])}
      [] pc[t] \in {"c_receivers", "f_receivers", "w_receivers"} -> {RecvM}
      [] OTHER -> {}

BlockedBy(t, u) == \E m \in WaitsFor(t) : Holds(u, m)

\* C19: no two threads ever wait for each other: there is no state in which
\* each of two threads holds a mutex that the next step of the other has to
\* lock.
C19_NoDeadlock ==
    \A t, u \in Threads : t # u => ~(BlockedBy(t, u) /\ BlockedBy(u, t))

\* C20: the sample offset changes only in the step in which a create
\* assembles a buffer, and then it grows by the no_samples of the frame of
\* that buffer; a create that returns NotNegotiated, StreamClosed or the
\* empty buffer, and every step of every other operation, leaves it as it
\* was.
C20_OffsetFrame ==
    [][\A i \in Instances :
          LET before == timestamp_data[i].offset
              after == timestamp_data'[i].offset
          IN  /\ after # before =>
                     \E t \in StreamThreads :
                        /\ inst[t] = i
                        /\ pc[t] = "c_poll"
                        /\ pc'[t] = "c_ret"
                        /\ ret'[t].kind = "Buffer"
                        /\ ret'[t].no_samples = local'[t].frame.no_samples
                        /\ after = before + ret'[t].no_samples
              /\ \A t \in StreamThreads :
                    (inst[t] = i /\ pc'[t] = "c_ret" /\ pc[t] # "c_ret") =>
                        IF ret'[t].kind = "Buffer"
                        THEN after = before + ret'[t].no_samples
                        ELSE after = before
      ]_vars

\* a create that, after a failed poll, has assembled a buffer of two samples
\* in an instance whose offset was above 0, and has moved the offset by two
C20_Witness ==
    \E t \in StreamThreads :
        /\ pc[t] = "c_ret"
        /\ ret[t].kind = "Buffer"
        /\ local[t].fails > 0
        /\ ret[t].offset > 0
        /\ ret[t].no_samples = 2
        /\ timestamp_data[inst[t]].offset = ret[t].offset + 2

====
